---- MODULE Spec2Model ----
(***************************************************************************)
(* Response compression for Rocket: the negotiation utilities and the      *)
(* streaming / buffering compressors of src/src/lib.rs, the plain          *)
(* Compression fairing that applies compress_response to every response,   *)
(* and the CachedCompression fairing configured by                         *)
(* src/examples/cached-compression/main.rs.                                *)
(*                                                                         *)
(* Text (header values, paths) is a sequence of one-character strings, so  *)
(* that split, trim and ends_with are computed character by character.     *)
(***************************************************************************)
EXTENDS Integers, Sequences, FiniteSets, TLC

\* ------------------------------------------------------------------ bounds
\* Accept-Encoding header lines carried by one request.
MaxAcceptValues == 2
\* Bytes of an uncompressed body.
MaxBodyLen == 2
\* Times the response hook is run on one response.
MaxApply == 2
\* Requests the caching fairing handles at the same time.
NumSlots == 2
\* Requests the caching fairing handles in all.
MaxRequests == 3

\* --------------------------------------------------------- program constants
\* Quality used by the brotli codec for Level::Default ("best", or 11).
BrotliCodecDefault == 11
\* Quality substituted for Level::Default on the buffer path.
BrotliDefaultOverride == 4

\* ------------------------------------------------------------------- text
Whitespace == {" ", "\t"}

\* str::split(','): the pieces between commas, empty pieces included.
RECURSIVE SplitFrom(_, _, _)
SplitFrom(s, i, cur) ==
    IF i > Len(s) THEN <<cur>>
    ELSE IF s[i] = "," THEN <<cur>> \o SplitFrom(s, i + 1, <<>>)
    ELSE SplitFrom(s, i + 1, Append(cur, s[i]))

Split(s) == SplitFrom(s, 1, <<>>)

RECURSIVE TrimStart(_)
TrimStart(s) ==
    IF s # <<>> /\ Head(s) \in Whitespace THEN TrimStart(Tail(s)) ELSE s

RECURSIVE TrimEnd(_)
TrimEnd(s) ==
    IF s # <<>> /\ s[Len(s)] \in Whitespace
    THEN TrimEnd(SubSeq(s, 1, Len(s) - 1)) ELSE s

\* str::trim(): whitespace removed at both ends, never inside.
Trim(s) == TrimEnd(TrimStart(s))

RECURSIVE FlatMap(_)
\* flat_map(|accept| accept.split(',')) followed by map(|accept| accept.trim())
FlatMap(values) ==
    IF values = <<>> THEN <<>>
    ELSE [i \in 1..Len(Split(Head(values))) |-> Trim(Split(Head(values))[i])]
         \o FlatMap(Tail(values))

\* --------------------------------------------------------------- encodings
\* impl Display for Encoding, for the two variants compress_response builds.
EncodingToStringWrong(encoding) ==
    CASE encoding = "Brotli" -> "brotli"
      [] encoding = "Gzip" -> "gzip"
      [] encoding = "Deflate" -> "deflate"
      [] encoding = "Identity" -> "identity"

EncodingToString(encoding) ==
    CASE encoding = "Brotli" -> "br"
      [] encoding = "Gzip" -> "gzip"
      [] encoding = "Deflate" -> "deflate"
      [] encoding = "Identity" -> "identity"

\* ----------------------------------------------------------------- levels
\* async_compression::Level
LevelDefault == [tag |-> "Default", q |-> 0]
Precise(n) == [tag |-> "Precise", q |-> n]

\* The quality the brotli codec runs at for a Level handed to with_quality.
BrotliQuality(level) ==
    CASE level.tag = "Default" -> BrotliCodecDefault
      [] level.tag = "Best" -> BrotliCodecDefault
      [] level.tag = "Fastest" -> 0
      [] level.tag = "Precise" -> level.q

\* ---------------------------------------------------------------- headers
\* Header names are compared without regard to case.
Uncased(name) ==
    CASE name = "Content-Encoding" -> "content-encoding"
      [] name = "Content-Type" -> "content-type"
      [] name = "Accept-Encoding" -> "accept-encoding"
      [] OTHER -> name

\* headers().get(name): every value stored under the name.
HeaderGet(headers, name) ==
    IF Uncased(name) \in DOMAIN headers THEN headers[Uncased(name)] ELSE <<>>

\* set_header: the values under the name are replaced by the one value.
HeaderSet(headers, name, value) ==
    [n \in (DOMAIN headers) \cup {Uncased(name)} |->
        IF n = Uncased(name) THEN <<value>> ELSE headers[n]]

CONTENT_ENCODING == "content-encoding"

\* ------------------------------------------------------------- media types
\* UncasedStr equality of the top and sub components of a media type.
Lower(w) ==
    CASE w = "IMAGE" -> "image"
      [] w = "PNG" -> "png"
      [] OTHER -> w

UncasedEq(a, b) == Lower(a) = Lower(b)

MT(top, sub) == [top |-> top, sub |-> sub]

\* MediaType == MediaType: top and sub, parameters ignored.
MediaTypeEq(a, b) == UncasedEq(a.top, b.top) /\ UncasedEq(a.sub, b.sub)

None == [some |-> FALSE, top |-> "", sub |-> ""]
Some(mt) == [some |-> TRUE, top |-> mt.top, sub |-> mt.sub]

\* The Content-Type header values a handler may send.
ContentTypeValues ==
    {"image/png", "IMAGE/PNG", "image/jpeg", "text/html; charset=utf-8"}

\* str::parse::<ContentType>().ok()
ParseContentType(v) ==
    CASE v = "image/png" -> Some(MT("image", "png"))
      [] v = "IMAGE/PNG" -> Some(MT("IMAGE", "PNG"))
      [] v = "image/jpeg" -> Some(MT("image", "jpeg"))
      [] v = "text/html; charset=utf-8" -> Some(MT("text", "html"))
      [] OTHER -> None

\* Response::content_type(): the first Content-Type value, parsed.
ContentTypeOf(response) ==
    IF HeaderGet(response.headers, "Content-Type") = <<>> THEN None
    ELSE ParseContentType(HeaderGet(response.headers, "Content-Type")[1])

\* ------------------------------------------------------------------ bodies
\* One item of a byte stream: a plain byte v, or a piece of the output of
\* the codec c run at level l (its header, the coding of byte v, its end).
Plain(v) == [t |-> "plain", c |-> "none", l |-> LevelDefault, v |-> v]
Coded(t, c, l, v) == [t |-> t, c |-> c, l |-> l, v |-> v]

\* Body::default(), what body_mut().take() leaves behind.
EmptyBody ==
    [kind |-> "empty", layers |-> <<>>, data |-> <<>>,
     fails |-> FALSE, failAt |-> 0]

\* A handler's body: data, and the read at which its reader fails, if any.
RawBody(data, fails, failAt) ==
    [kind |-> "raw", layers |-> <<>>, data |-> data,
     fails |-> fails, failAt |-> failAt]

\* Cursor::new(bytes): a body over bytes held in memory.
BufferBody(bytes) ==
    [kind |-> "raw", layers |-> <<>>, data |-> bytes,
     fails |-> FALSE, failAt |-> 0]

\* BrotliEncoder / GzipEncoder ::with_quality(BufReader::new(body), level):
\* the encoder owns the body it reads from.
Encoder(codec, body, level) ==
    [body EXCEPT !.kind = "encoder",
                 !.layers = Append(@, [codec |-> codec, level |-> level])]

\* The codec and level of the encoder a body is wrapped in.
Outer(body) == body.layers[Len(body.layers)]

\* What the encoder has produced once it has read k bytes of its source,
\* finished telling whether it has also seen the end of the source.
EncoderOutput(codec, level, data, k, finished) ==
    IF k = 0 /\ ~finished THEN <<>>
    ELSE <<Coded("hdr", codec, level, 0)>>
         \o [i \in 1..k |-> Coded("enc", codec, level, data[i].v)]
         \o (IF finished THEN <<Coded("end", codec, level, 0)>> ELSE <<>>)

\* A complete stream of the codec: header, coded bytes, end marker.
CompleteStream(out) ==
    /\ Len(out) >= 2
    /\ out[1].t = "hdr"
    /\ out[Len(out)].t = "end"
    /\ \A i \in 2..(Len(out) - 1) : out[i].t = "enc"

\* ------------------------------------------------------------ negotiation
already_encoded_never(response) == FALSE

already_encoded(response) ==
    HeaderGet(response.headers, "Content-Encoding") # <<>>

set_body_and_encoding(response, body, encoding) ==
    [response EXCEPT
        !.headers = HeaderSet(@, CONTENT_ENCODING, EncodingToString(encoding)),
        !.body = body]

skip_encoding_no_top(content_type, exclusions) ==
    /\ content_type.some
    /\ \E i \in 1..Len(exclusions) :
          IF exclusions[i].sub = "*" THEN TRUE
          ELSE MediaTypeEq(exclusions[i], content_type)

skip_encoding(content_type, exclusions) ==
    /\ content_type.some
    /\ \E i \in 1..Len(exclusions) :
          IF exclusions[i].sub = "*"
          THEN UncasedEq(exclusions[i].top, content_type.top)
          ELSE MediaTypeEq(exclusions[i], content_type)

Gz == <<"g", "z", "i", "p">>
Br == <<"b", "r">>

IsPrefix(p, s) == Len(p) <= Len(s) /\ SubSeq(s, 1, Len(p)) = p

accepted_algorithms_prefix(request) ==
    LET tokens == FlatMap(request.accept) IN
    <<\E i \in 1..Len(tokens) : IsPrefix(Gz, tokens[i]),
      \E i \in 1..Len(tokens) : IsPrefix(Br, tokens[i])>>

\* (accepts_gzip, accepts_br): the fold is an "any" over the tokens.
accepted_algorithms(request) ==
    LET tokens == FlatMap(request.accept) IN
    <<\E i \in 1..Len(tokens) : tokens[i] = Gz,
      \E i \in 1..Len(tokens) : tokens[i] = Br>>

compress_response_gzip_first(request, response, exclusions, level) ==
    LET accepts == accepted_algorithms(request)
        body == response.body
        taken == [response EXCEPT !.body = EmptyBody]
    IN  IF already_encoded(response) THEN response
        ELSE IF skip_encoding(ContentTypeOf(response), exclusions) THEN response
        ELSE IF ~accepts[1] /\ ~accepts[2] THEN response
        ELSE IF accepts[1]
             THEN set_body_and_encoding(taken, Encoder("gzip", body, level), "Gzip")
        ELSE set_body_and_encoding(taken, Encoder("br", body, level), "Brotli")

compress_response(request, response, exclusions, level) ==
    LET accepts == accepted_algorithms(request)
        accepts_gzip == accepts[1]
        accepts_br == accepts[2]
        body == response.body
        taken == [response EXCEPT !.body = EmptyBody]
    IN  IF already_encoded(response) THEN response
        ELSE IF skip_encoding(ContentTypeOf(response), exclusions) THEN response
        ELSE IF ~accepts_gzip /\ ~accepts_br THEN response
        ELSE IF accepts_br
             THEN set_body_and_encoding(taken, Encoder("br", body, level), "Brotli")
        ELSE IF accepts_gzip
             THEN set_body_and_encoding(taken, Encoder("gzip", body, level), "Gzip")
        ELSE taken

DrainToBufferPartial(codec, body, level) ==
    [ok |-> TRUE,
     bytes |-> IF body.fails
               THEN EncoderOutput(codec, level, body.data, body.failAt, FALSE)
               ELSE EncoderOutput(codec, level, body.data, Len(body.data), TRUE)]

\* tokio::io::copy(&mut compressor, &mut out).await? ; Ok(out)
DrainToBuffer(codec, body, level) ==
    IF body.fails
    THEN [ok |-> FALSE, bytes |-> <<>>]
    ELSE [ok |-> TRUE,
          bytes |-> EncoderOutput(codec, level, body.data, Len(body.data), TRUE)]

compress_body(body, encoding, level) ==
    IF encoding = "Brotli"
    THEN LET lvl == IF level.tag = "Default" THEN Precise(BrotliDefaultOverride)
                    ELSE level
         IN  DrainToBuffer("br", body, lvl)
    ELSE DrainToBuffer("gzip", body, level)

\* ------------------------------------------------------------------ inputs
Text1 == <<"b", "r">>
Text2 == <<"g", "z", "i", "p", ";", "q", "=", "0", ".", "8", ",", "B", "R", ",", "*">>
Text3 == <<"d", "e", "f", "l", "a", "t", "e", ",", " ", "g", "z", "i", "p", " ", ",", "x">>

\* Accept-Encoding header values a client may send.
AcceptValues == {Text1, Text2, Text3}

RECURSIVE SeqsUpTo(_, _)
SeqsUpTo(S, n) ==
    IF n = 0 THEN {<<>>}
    ELSE SeqsUpTo(S, n - 1)
         \cup {Append(q, x) : q \in {r \in SeqsUpTo(S, n - 1) : Len(r) = n - 1}, x \in S}

Requests == {[accept |-> a] : a \in SeqsUpTo(AcceptValues, MaxAcceptValues)}

\* Content-Encoding values a handler may already have set.
PresetEncodings == {<<>>, <<"gzip">>, <<"identity", "br">>}

HeadersOf(ce, ct) ==
    [n \in (IF ce = <<>> THEN {} ELSE {"content-encoding"})
           \cup (IF ct = <<>> THEN {} ELSE {"content-type"}) |->
        IF n = "content-encoding" THEN ce ELSE ct]

Bytes(n) == [i \in 1..n |-> Plain(i)]

Bodies ==
    {RawBody(Bytes(n), FALSE, 0) : n \in 0..MaxBodyLen}
    \cup {RawBody(Bytes(n), TRUE, k) : n \in 0..MaxBodyLen, k \in 0..MaxBodyLen}

Responses ==
    {[headers |-> HeadersOf(ce, ct), body |-> b] :
        ce \in PresetEncodings,
        ct \in {<<>>} \cup {<<v>> : v \in ContentTypeValues},
        b \in {x \in Bodies : x.failAt <= Len(x.data)}}

ExclusionLists ==
    {<<>>, <<MT("image", "*")>>, <<MT("text", "html"), MT("image", "png")>>}

Levels == {LevelDefault, Precise(9)}

NoRequest == [accept |-> <<>>]
NoResponse == [headers |-> HeadersOf(<<>>, <<>>), body |-> EmptyBody]

\* ------------------------------------------------------------ cache inputs
\* CachedCompression::static_paths(vec![".txt"])
SuffixTxt == <<".", "t", "x", "t">>
Suffixes == <<SuffixTxt>>

PathLower == <<"/", "a", ".", "t", "x", "t">>
PathUpper == <<"/", "a", ".", "T", "X", "T">>
Paths == {PathLower, PathUpper}

\* The file served at a path; it does not change while the server runs.
Content(path) == IF path = PathLower THEN Bytes(1) ELSE Bytes(0)

Slots == 1..NumSlots

CachedEncodings == {"Brotli", "Gzip"}
Key(path, enc) == [path |-> path, enc |-> enc]
Keys == {Key(p, e) : p \in Paths, e \in CachedEncodings}

CachedRequests ==
    {[path |-> p, accept |-> a] : p \in Paths, a \in {<<Text3>>, <<Text1>>}}

CachedResponses(path) ==
    {[headers |-> HeadersOf(<<>>, <<"text/html; charset=utf-8">>),
      body |-> RawBody(Content(path), f, 0)] : f \in BOOLEAN}

NoCachedRequest == [path |-> <<>>, accept |-> <<>>]

\* ------------------------------------------------------------------- state
VARIABLES
    exclusions,   \* the fairing's excluded content types
    level,        \* the fairing's compression level
    request,      \* the request being answered
    response,     \* its response
    before,       \* the response as it was when the hook was last entered
    applied,      \* times the hook has run on this response
    phase,        \* "idle", "hook" or "stream"
    pos,          \* bytes of the source body read so far
    sent,         \* items the consumer of the body has received
    io,           \* the consumer's view of the stream: "open", "eof", "error"
    cpc,          \* per request task: "idle", "hook", "waiting", "computing", "done"
    creq,         \* per request task: its request
    cresp,        \* per request task: its response
    cbefore,      \* per request task: the response the handler built
    cache,        \* (path, encoding) -> the compressed bytes stored for it
    inflight,     \* keys whose population is running
    computations, \* per key: times compress_body was started for it
    failures,     \* per key: times compress_body failed for it
    routed        \* requests accepted so far

pvars == <<request, response, before, applied, phase, pos, sent, io>>
cvars == <<cpc, creq, cresp, cbefore, cache, inflight, computations, failures,
           routed>>
vars == <<exclusions, level, pvars, cvars>>

InitPlain ==
    /\ request = NoRequest
    /\ response = NoResponse
    /\ before = NoResponse
    /\ applied = 0
    /\ phase = "idle"
    /\ pos = 0
    /\ sent = <<>>
    /\ io = "open"

InitCache ==
    /\ cpc = [s \in Slots |-> "idle"]
    /\ creq = [s \in Slots |-> NoCachedRequest]
    /\ cresp = [s \in Slots |-> NoResponse]
    /\ cbefore = [s \in Slots |-> NoResponse]
    /\ cache = <<>>
    /\ inflight = {}
    /\ computations = [k \in Keys |-> 0]
    /\ failures = [k \in Keys |-> 0]
    /\ routed = 0

\* ------------------------------------------------- the Compression fairing
Init ==
    /\ exclusions \in ExclusionLists
    /\ level \in Levels
    /\ InitPlain
    /\ InitCache

\* A request is routed and its handler builds a response.
Route ==
    /\ phase = "idle"
    /\ \E req \in Requests, resp \in Responses :
          /\ request' = req
          /\ response' = resp
          /\ before' = resp
    /\ applied' = 0
    /\ phase' = "hook"
    /\ pos' = 0
    /\ sent' = <<>>
    /\ io' = "open"
    /\ UNCHANGED <<exclusions, level, cvars>>

\* Fairing::on_response of Compression: compress_response on the response.
OnResponse ==
    /\ phase = "hook"
    /\ applied < MaxApply
    /\ before' = response
    /\ response' = compress_response(request, response, exclusions, level)
    /\ applied' = applied + 1
    /\ UNCHANGED <<exclusions, level, request, phase, pos, sent, io, cvars>>

\* The hooks are over; the framework starts writing the body out.
Send ==
    /\ phase = "hook"
    /\ applied >= 1
    /\ phase' = "stream"
    /\ UNCHANGED <<exclusions, level, request, response, before, applied, pos,
                   sent, io, cvars>>

\* One read of the source reader: a byte, the end, or an I/O error.
SourceRead(body, k) ==
    IF body.fails /\ body.failAt = k THEN "error"
    ELSE IF k = Len(body.data) THEN "eof"
    ELSE "byte"

EncoderPollSwallow(body, k, out) ==
    CASE SourceRead(body, k) = "byte" ->
            [io |-> "open", pos |-> k + 1,
             sent |-> EncoderOutput(Outer(body).codec, Outer(body).level,
                                    body.data, k + 1, FALSE)]
      [] OTHER ->
            [io |-> "eof", pos |-> k,
             sent |-> EncoderOutput(Outer(body).codec, Outer(body).level,
                                    body.data, k, TRUE)]

\* poll_read of the encoder: an error of the source is returned as it is.
EncoderPoll(body, k, out) ==
    CASE SourceRead(body, k) = "error" ->
            [io |-> "error", pos |-> k, sent |-> out]
      [] SourceRead(body, k) = "byte" ->
            [io |-> "open", pos |-> k + 1,
             sent |-> EncoderOutput(Outer(body).codec, Outer(body).level,
                                    body.data, k + 1, FALSE)]
      [] SourceRead(body, k) = "eof" ->
            [io |-> "eof", pos |-> k,
             sent |-> EncoderOutput(Outer(body).codec, Outer(body).level,
                                    body.data, k, TRUE)]

\* poll_read of a body that was not wrapped.
RawPoll(body, k, out) ==
    CASE SourceRead(body, k) = "error" ->
            [io |-> "error", pos |-> k, sent |-> out]
      [] SourceRead(body, k) = "byte" ->
            [io |-> "open", pos |-> k + 1, sent |-> Append(out, body.data[k + 1])]
      [] SourceRead(body, k) = "eof" ->
            [io |-> "eof", pos |-> k, sent |-> out]

\* The framework reads the next piece of the response body.
PollRead ==
    /\ phase = "stream"
    /\ io = "open"
    /\ LET r == IF response.body.kind = "encoder"
                THEN EncoderPoll(response.body, pos, sent)
                ELSE RawPoll(response.body, pos, sent)
       IN  /\ io' = r.io
           /\ pos' = r.pos
           /\ sent' = r.sent
    /\ UNCHANGED <<exclusions, level, request, response, before, applied, phase,
                   cvars>>

\* The stream has ended (or failed); the request is over.
Complete ==
    /\ phase = "stream"
    /\ io # "open"
    /\ request' = NoRequest
    /\ response' = NoResponse
    /\ before' = NoResponse
    /\ applied' = 0
    /\ phase' = "idle"
    /\ pos' = 0
    /\ sent' = <<>>
    /\ io' = "open"
    /\ UNCHANGED <<exclusions, level, cvars>>

Next == Route \/ OnResponse \/ Send \/ PollRead \/ Complete

Spec == Init /\ [][Next]_vars

\* -------------------------------------------- the CachedCompression fairing
\* str::ends_with
EndsWith(s, suffix) ==
    /\ Len(suffix) <= Len(s)
    /\ \A i \in 1..Len(suffix) : s[Len(s) - Len(suffix) + i] = suffix[i]

LowerChar(c) == CASE c = "T" -> "t" [] c = "X" -> "x" [] OTHER -> c

PathEligibleAnyCase(path, suffixes) ==
    \E i \in 1..Len(suffixes) :
        EndsWith([j \in 1..Len(path) |-> LowerChar(path[j])], suffixes[i])

\* The path ends with one of the configured suffixes.
PathEligible(path, suffixes) ==
    \E i \in 1..Len(suffixes) : EndsWith(path, suffixes[i])

\* Steps 1-3 of the plain filter, and the suffix gate.
Qualifies(req, resp) ==
    /\ PathEligible(req.path, Suffixes)
    /\ ~already_encoded(resp)
    /\ ~skip_encoding(ContentTypeOf(resp), exclusions)
    /\ LET accepts == accepted_algorithms(req) IN accepts[1] \/ accepts[2]

\* brotli is preferred over gzip whenever both are accepted.
Negotiated(req) == IF accepted_algorithms(req)[2] THEN "Brotli" ELSE "Gzip"

KeyOf(s) == Key(creq[s].path, Negotiated(creq[s]))

MayStartAlways(key) == key \notin DOMAIN cache

\* A population is started only for a key that is neither stored nor running.
MayStart(key) == key \notin DOMAIN cache /\ key \notin inflight

CRoute(s) ==
    /\ cpc[s] = "idle"
    /\ routed < MaxRequests
    /\ \E req \in CachedRequests :
          \E resp \in CachedResponses(req.path) :
             /\ creq' = [creq EXCEPT ![s] = req]
             /\ cresp' = [cresp EXCEPT ![s] = resp]
             /\ cbefore' = [cbefore EXCEPT ![s] = resp]
    /\ cpc' = [cpc EXCEPT ![s] = "hook"]
    /\ routed' = routed + 1
    /\ UNCHANGED <<exclusions, level, pvars, cache, inflight, computations,
                   failures>>

\* The response does not qualify: the hook leaves it alone.
CSkip(s) ==
    /\ cpc[s] = "hook"
    /\ ~Qualifies(creq[s], cresp[s])
    /\ cpc' = [cpc EXCEPT ![s] = "done"]
    /\ UNCHANGED <<exclusions, level, pvars, creq, cresp, cbefore, cache,
                   inflight, computations, failures, routed>>

\* The key is stored: the stored bytes become the body.
CHit(s) ==
    /\ cpc[s] \in {"hook", "waiting"}
    /\ Qualifies(creq[s], cresp[s])
    /\ KeyOf(s) \in DOMAIN cache
    /\ cresp' = [cresp EXCEPT ![s] =
          set_body_and_encoding(@, BufferBody(cache[KeyOf(s)]), KeyOf(s).enc)]
    /\ cpc' = [cpc EXCEPT ![s] = "done"]
    /\ UNCHANGED <<exclusions, level, pvars, creq, cbefore, cache, inflight,
                   computations, failures, routed>>

\* The key is being populated by another request: wait for it.
CWait(s) ==
    /\ cpc[s] = "hook"
    /\ Qualifies(creq[s], cresp[s])
    /\ KeyOf(s) \notin DOMAIN cache
    /\ KeyOf(s) \in inflight
    /\ cpc' = [cpc EXCEPT ![s] = "waiting"]
    /\ UNCHANGED <<exclusions, level, pvars, creq, cresp, cbefore, cache,
                   inflight, computations, failures, routed>>

\* The key is absent: this request takes its body and populates the key.
CStart(s) ==
    /\ cpc[s] \in {"hook", "waiting"}
    /\ Qualifies(creq[s], cresp[s])
    /\ MayStart(KeyOf(s))
    /\ inflight' = inflight \cup {KeyOf(s)}
    /\ computations' = [computations EXCEPT ![KeyOf(s)] = @ + 1]
    /\ cpc' = [cpc EXCEPT ![s] = "computing"]
    /\ UNCHANGED <<exclusions, level, pvars, creq, cresp, cbefore, cache,
                   failures, routed>>

\* compress_body returned: its bytes are stored and served, or it failed.
CFinish(s) ==
    /\ cpc[s] = "computing"
    /\ LET key == KeyOf(s)
           r == compress_body(cresp[s].body, key.enc, level)
       IN  /\ inflight' = inflight \ {key}
           /\ IF r.ok
              THEN /\ cache' = [k \in (DOMAIN cache) \cup {key} |->
                                   IF k = key THEN r.bytes ELSE cache[k]]
                   /\ cresp' = [cresp EXCEPT ![s] =
                         set_body_and_encoding(@, BufferBody(r.bytes), key.enc)]
                   /\ UNCHANGED failures
              ELSE /\ failures' = [failures EXCEPT ![key] = @ + 1]
                   /\ cresp' = [cresp EXCEPT ![s].body = EmptyBody]
                   /\ UNCHANGED cache
    /\ cpc' = [cpc EXCEPT ![s] = "done"]
    /\ UNCHANGED <<exclusions, level, pvars, creq, cbefore, computations, routed>>

\* The response has been written out; the task is free again.
CDone(s) ==
    /\ cpc[s] = "done"
    /\ cpc' = [cpc EXCEPT ![s] = "idle"]
    /\ creq' = [creq EXCEPT ![s] = NoCachedRequest]
    /\ cresp' = [cresp EXCEPT ![s] = NoResponse]
    /\ cbefore' = [cbefore EXCEPT ![s] = NoResponse]
    /\ UNCHANGED <<exclusions, level, pvars, cache, inflight, computations,
                   failures, routed>>

InitCached ==
    /\ exclusions = <<MT("image", "*")>>
    /\ level \in {LevelDefault, Precise(9)}
    /\ InitPlain
    /\ InitCache

NextCached ==
    \E s \in Slots :
        \/ CRoute(s)
        \/ CSkip(s)
        \/ CHit(s)
        \/ CWait(s)
        \/ CStart(s)
        \/ CFinish(s)
        \/ CDone(s)

SpecCached == InitCached /\ [][NextCached]_vars

\* ----------------------------------------------------------------- claims
\* The response carries at least one Content-Encoding value.
CarriesEncoding(resp) ==
    /\ "content-encoding" \in DOMAIN resp.headers
    /\ Len(resp.headers["content-encoding"]) >= 1

\* Some comma-separated, whitespace-trimmed token of the accept values is tok.
HasToken(accept, tok) ==
    \E i \in 1..Len(accept) :
        \E j \in 1..Len(Split(accept[i])) : Trim(Split(accept[i])[j]) = tok

\* The declared content type matches an entry of the exclusion list.
Excluded(resp, list) ==
    /\ ContentTypeOf(resp).some
    /\ \E i \in 1..Len(list) :
          \/ /\ list[i].sub = "*"
             /\ Lower(list[i].top) = Lower(ContentTypeOf(resp).top)
          \/ /\ list[i].sub # "*"
             /\ Lower(list[i].top) = Lower(ContentTypeOf(resp).top)
             /\ Lower(list[i].sub) = Lower(ContentTypeOf(resp).sub)

\* C1: a response that already carries a Content-Encoding value leaves the
\* hook exactly as it entered it, and so a second run of the hook on the
\* same response changes nothing the first run produced.
C1_AlreadyEncodedUnmodified ==
    applied >= 1 =>
        /\ CarriesEncoding(before) => response = before
        /\ applied >= 2 => response = before

C1_Witness ==
    /\ applied = 1
    /\ HeaderGet(before.headers, "Content-Encoding") = <<"identity", "br">>
    /\ HasToken(request.accept, Br)
    /\ ~Excluded(before, exclusions)
    /\ response = before

\* C2: with no Accept-Encoding header, or with no token exactly "gzip" or
\* "br" among its trimmed comma-separated tokens, the response leaves the
\* hook with the body and headers it entered with.
C2_NoAcceptedTokenUnmodified ==
    (applied >= 1 /\ ~HasToken(request.accept, Gz) /\ ~HasToken(request.accept, Br))
        => response = before

C2_Witness ==
    /\ applied = 1
    /\ request.accept = <<Text2>>
    /\ ~CarriesEncoding(before)
    /\ ~Excluded(before, exclusions)
    /\ response = before

\* C3: for a response neither encoded nor excluded, a request accepting both
\* br and gzip gets the brotli encoder, and the gzip encoder is used only
\* when gzip is accepted and br is not.
C3_BrotliPreferred ==
    (applied >= 1 /\ ~CarriesEncoding(before) /\ ~Excluded(before, exclusions)) =>
        /\ (HasToken(request.accept, Br) /\ HasToken(request.accept, Gz)) =>
              (response.body.kind = "encoder" /\ Outer(response.body).codec = "br")
        /\ (response.body.kind = "encoder" /\ Outer(response.body).codec = "gzip") =>
              (HasToken(request.accept, Gz) /\ ~HasToken(request.accept, Br))

C3_Witness ==
    /\ applied = 1
    /\ request.accept = <<Text3, Text1>>
    /\ response.body.kind = "encoder"
    /\ Outer(response.body).codec = "br"

\* C4: a response whose content type matches an exclusion (the top-level
\* type for an entry with subtype "*", the full pair otherwise) is never
\* compressed; a response that is not encoded and whose request accepts
\* gzip or br is left alone only in that case, so never for a missing
\* content type.
C4_ExcludedNeverCompressed ==
    applied >= 1 =>
        /\ Excluded(before, exclusions) => response = before
        /\ (/\ ~CarriesEncoding(before)
            /\ HasToken(request.accept, Gz) \/ HasToken(request.accept, Br)
            /\ response = before) => Excluded(before, exclusions)

C4_Witness ==
    /\ applied = 1
    /\ exclusions = <<MT("image", "*")>>
    /\ HeaderGet(before.headers, "Content-Type") = <<"image/jpeg">>
    /\ ~CarriesEncoding(before)
    /\ HasToken(request.accept, Br)
    /\ response = before

\* C5: a response the hook changed carries exactly one Content-Encoding
\* value, "br" or "gzip", naming the codec its body is wrapped in; the
\* header changed exactly when the body was replaced.
C5_OneCanonicalToken ==
    applied >= 1 =>
        /\ (response.headers # before.headers) <=> (response.body # before.body)
        /\ response # before =>
              /\ response.body.kind = "encoder"
              /\ Len(response.body.layers) = 1
              /\ HeaderGet(response.headers, "Content-Encoding")
                    \in {<<"br">>, <<"gzip">>}
              /\ HeaderGet(response.headers, "Content-Encoding")
                    = <<Outer(response.body).codec>>

C5_Witness ==
    /\ applied = 1
    /\ response # before
    /\ Outer(response.body).codec = "gzip"
    /\ HeaderGet(response.headers, "Content-Encoding") = <<"gzip">>

\* C9: a brotli encoder built while the configured level is "default" runs
\* at quality 4; a gzip encoder, or any encoder built for another level,
\* is handed the configured level unchanged.
C9_DefaultBrotliQuality ==
    (phase # "idle" /\ response.body.kind = "encoder") =>
        /\ (Outer(response.body).codec = "br" /\ level.tag = "Default") =>
              BrotliQuality(Outer(response.body).level) = BrotliDefaultOverride
        /\ (Outer(response.body).codec = "gzip" \/ level.tag # "Default") =>
              Outer(response.body).level = level

\* C10 as first stated: when reading the source fails, either a complete
\* compressed stream was produced or the hook left the response as it was.
C10_FailureLeavesResponseAlone ==
    (phase = "stream" /\ io = "error") =>
        \/ CompleteStream(sent)
        \/ (response.body.kind # "encoder" /\ ~CarriesEncoding(response))

\* C10, amended: the hook has set Content-Encoding and installed the encoder
\* before anything is read; when a read of the source fails, the consumer of
\* the body gets the error after the coded output of the bytes read so far,
\* never the end of the stream, and so never a complete stream. On the
\* buffer path compress_body returns the error and no bytes.
C10_FailureSurfacesAsError ==
    /\ (phase = "stream" /\ response.body.kind = "encoder") =>
          /\ CarriesEncoding(response)
          /\ response.body.fails => (io # "eof" /\ ~CompleteStream(sent))
          /\ io = "error" =>
                /\ pos = response.body.failAt
                /\ sent = EncoderOutput(Outer(response.body).codec,
                                        Outer(response.body).level,
                                        response.body.data, pos, FALSE)
    /\ \A b \in Bodies : \A e \in CachedEncodings :
          (b.fails /\ b.failAt <= Len(b.data)) =>
              compress_body(b, e, level) = [ok |-> FALSE, bytes |-> <<>>]

C10_Witness ==
    /\ phase = "stream"
    /\ io = "error"
    /\ response.body.kind = "encoder"
    /\ Len(sent) >= 1

\* The request task s was served compressed bytes for key k.
Served(s, k) ==
    /\ cpc[s] = "done"
    /\ cresp[s] # cbefore[s]
    /\ cresp[s].body.kind = "raw"
    /\ KeyOf(s) = k

\* The path ends, character for character, with a configured suffix.
SuffixMatch(path) ==
    \E i \in 1..Len(Suffixes) :
        /\ Len(Suffixes[i]) <= Len(path)
        /\ SubSeq(path, Len(path) - Len(Suffixes[i]) + 1, Len(path)) = Suffixes[i]

\* C6: for a key whose population never failed, compression is started at
\* most once however the requests for it interleave, exactly once as soon
\* as one of them has been served, and every request served for the key
\* carries the same bytes, those stored for the key.
C6_OneComputationPerKey ==
    \A k \in Keys :
        failures[k] = 0 =>
            /\ computations[k] <= 1
            /\ \A s \in Slots :
                  Served(s, k) =>
                      /\ computations[k] = 1
                      /\ k \in DOMAIN cache
                      /\ cresp[s].body.data = cache[k]
            /\ \A s, t \in Slots :
                  (Served(s, k) /\ Served(t, k)) => cresp[s].body = cresp[t].body

C6_Witness ==
    \E s, t \in Slots :
        /\ s # t
        /\ Served(s, KeyOf(s))
        /\ Served(t, KeyOf(s))
        /\ failures[KeyOf(s)] = 0
        /\ computations[KeyOf(s)] = 1

\* C7: a request whose path ends with no configured suffix (compared case
\* sensitively) is never compressed and never waits: its response stays as
\* the handler built it, and no population is started and no entry stored
\* for its path.
C7_SuffixGate ==
    \A s \in Slots :
        (cpc[s] # "idle" /\ ~SuffixMatch(creq[s].path)) =>
            /\ cpc[s] \in {"hook", "done"}
            /\ cresp[s] = cbefore[s]
            /\ \A e \in CachedEncodings :
                  /\ Key(creq[s].path, e) \notin DOMAIN cache
                  /\ Key(creq[s].path, e) \notin inflight
                  /\ computations[Key(creq[s].path, e)] = 0

C7_Witness ==
    \E s \in Slots :
        /\ cpc[s] = "done"
        /\ creq[s].path = PathUpper
        /\ HasToken(creq[s].accept, Gz)
        /\ ~CarriesEncoding(cbefore[s])
        /\ ~Excluded(cbefore[s], exclusions)
        /\ cresp[s] = cbefore[s]

\* Every stored entry is the complete compressed form of the file, and every
\* start of compress_body for a key is accounted for: it failed, it is
\* running, or it produced the stored entry.
C8_CacheSound ==
    /\ \A k \in DOMAIN cache :
          /\ CompleteStream(cache[k])
          /\ Len(cache[k]) = Len(Content(k.path)) + 2
    /\ \A k \in Keys :
          computations[k] = failures[k]
                            + (IF k \in inflight THEN 1 ELSE 0)
                            + (IF k \in DOMAIN cache THEN 1 ELSE 0)

\* A step in which a population fails stores nothing and leaves the key
\* absent and free to be populated again; no step changes a stored entry.
C8_FailureStep ==
    /\ \A k \in Keys :
          failures'[k] > failures[k] =>
              /\ cache' = cache
              /\ k \notin DOMAIN cache'
              /\ k \notin inflight'
    /\ \A k \in DOMAIN cache : k \in DOMAIN cache' /\ cache'[k] = cache[k]

\* C8: compress_body that fails returns the error and no bytes; the cache
\* then holds no entry for the key, its other entries are unchanged, and a
\* later request for the key runs the compression again.
C8_FailedPopulationStoresNothing ==
    /\ [](\A b \in Bodies : \A e \in CachedEncodings :
             (b.fails /\ b.failAt <= Len(b.data)) =>
                 (~compress_body(b, e, level).ok
                  /\ compress_body(b, e, level).bytes = <<>>))
    /\ []C8_CacheSound
    /\ [][C8_FailureStep]_vars

C8_Witness ==
    \E k \in Keys :
        /\ failures[k] >= 1
        /\ k \in DOMAIN cache
        /\ computations[k] = failures[k] + 1

====
